---------------------------- MODULE Spec2Model ----------------------------
(***************************************************************************)
(* Detection and repair of chain identifiers that occur in _atom_site but  *)
(* are not declared in _struct_asym (package fix_struct_asym).             *)
(*                                                                         *)
(* Strings are sequences of code points, so that Python's sorted() (code   *)
(* point order), str.lower(), int() and str() and gemmi's cif.as_string()  *)
(* are computed rather than assumed.  A CIF value is kept as the raw token *)
(* of the file; the code reads it through cif.as_string and writes Python  *)
(* strings back as raw tokens (Table.append_row / Loop.add_row).           *)
(***************************************************************************)
EXTENDS Integers, Sequences, FiniteSets, TLC

\* ------------------------------------------------------------------ bounds
\* Longest _atom_site and _struct_asym loops of the documents detection is
\* run on.
MaxAtomRows == 3
MaxAsymRows == 2
\* Longest _atom_site, _struct_asym and _entity loops of the documents one
\* repair is run on.
RepairAtomRows == 2
RepairAsymRows == 1
MaxEntityRows == 2
\* Number of consecutive calls of fix_missing_struct_asym in one behaviour.
MaxFixCalls == 2
\* The scan: files in the list, workers of the pool, the sample limit.
MaxScanFiles == 3
MaxWorkers == 2
MaxLimit == 2

\* ----------------------------------------------------------------- strings
HOH == <<72, 79, 72>>
ALA == <<65, 76, 65>>
WATER == <<119, 97, 116, 101, 114>>
POLYMER == <<112, 111, 108, 121, 109, 101, 114>>
\* Python's None, and the value of a column the loop does not have: neither
\* is a string (no code point is negative).
None == <<-1>>
NoColumn == <<-2>>

\* Python's < on str: lexicographic by code point.
StrLess(s, t) ==
    \E i \in 1..(Len(s) + 1) :
        /\ \A j \in 1..(i - 1) : j <= Len(t) /\ s[j] = t[j]
        /\ \/ i = Len(s) + 1 /\ Len(t) >= i
           \/ i <= Len(s) /\ i <= Len(t) /\ s[i] < t[i]

\* sorted(S) of a set of str.
RECURSIVE sorted(_)
sorted(S) ==
    IF S = {} THEN <<>>
    ELSE LET m == CHOOSE x \in S : \A y \in S \ {x} : StrLess(x, y)
         IN  <<m>> \o sorted(S \ {m})

\* str.lower() on the ASCII letters.
lower(s) == [i \in 1..Len(s) |-> IF s[i] \in 65..90 THEN s[i] + 32 ELSE s[i]]

\* gemmi cif.as_string: "?" and "." (and an empty token) read as "", a
\* quoted token loses its quotes, anything else is itself.
as_string(raw) ==
    IF raw = <<>> \/ raw = <<63>> \/ raw = <<46>> THEN <<>>
    ELSE IF raw[1] \in {34, 39} THEN SubSeq(raw, 2, Len(raw) - 1)
    ELSE raw

\* Value of a non-empty sequence of digits.
RECURSIVE DigitsValue(_)
DigitsValue(s) ==
    IF s = <<>> THEN 0
    ELSE 10 * DigitsValue(SubSeq(s, 1, Len(s) - 1)) + (s[Len(s)] - 48)

\* Python's int(str): an optional sign and decimal digits; ok = FALSE stands
\* for ValueError.
int(s) ==
    LET signed == s # <<>> /\ s[1] \in {43, 45}
        body == IF signed THEN Tail(s) ELSE s
    IN  IF body = <<>> \/ \E i \in 1..Len(body) : body[i] \notin 48..57
        THEN [ok |-> FALSE, value |-> 0]
        ELSE IF signed /\ s[1] = 45
        THEN [ok |-> TRUE, value |-> 0 - DigitsValue(body)]
        ELSE [ok |-> TRUE, value |-> DigitsValue(body)]

\* Python's str(int).
RECURSIVE NatStr(_)
NatStr(n) ==
    IF n < 10 THEN <<48 + n>> ELSE NatStr(n \div 10) \o <<48 + (n % 10)>>

str(n) == IF n < 0 THEN <<45>> \o NatStr(0 - n) ELSE NatStr(n)

\* --------------------------------------------------------------- documents
\* A category the block does not have.
NoStructAsym == [present |-> FALSE, has_entity_id |-> FALSE, rows |-> <<>>]
NoEntity ==
    [present |-> FALSE, has_type |-> FALSE, has_desc |-> FALSE, rows |-> <<>>]
NoAtomSite == [present |-> FALSE, rows |-> <<>>]

\* get_struct_asym_ids comparing the raw tokens (no cif.as_string).
get_struct_asym_ids_raw(block) ==
    IF block.struct_asym.present
    THEN {block.struct_asym.rows[i].id : i \in 1..Len(block.struct_asym.rows)}
    ELSE {}

\* get_struct_asym_ids: block.find("_struct_asym.", ["id"]) and the set of
\* as_string(id).
get_struct_asym_ids(block) ==
    IF block.struct_asym.present
    THEN {as_string(block.struct_asym.rows[i].id) :
              i \in 1..Len(block.struct_asym.rows)}
    ELSE {}

\* The loop body assigning the component set instead of adding to it.
ChainInfoRow_assign(acc, row) ==
    LET asym_id == as_string(row.label_asym_id)
        comp_id == as_string(row.label_comp_id)
        comp0 == IF asym_id \in DOMAIN acc.comp THEN acc.comp
                 ELSE acc.comp @@ (asym_id :> {})
        cnt0 == IF asym_id \in DOMAIN acc.comp THEN acc.count
                ELSE acc.count @@ (asym_id :> 0)
    IN  [comp |-> [comp0 EXCEPT ![asym_id] = {comp_id}],
         count |-> [cnt0 EXCEPT ![asym_id] = @ + 1]]

\* The loop body not counting the row that opens a chain.
ChainInfoRow_first_uncounted(acc, row) ==
    LET asym_id == as_string(row.label_asym_id)
        comp_id == as_string(row.label_comp_id)
        comp0 == IF asym_id \in DOMAIN acc.comp THEN acc.comp
                 ELSE acc.comp @@ (asym_id :> {})
        cnt0 == IF asym_id \in DOMAIN acc.comp THEN acc.count
                ELSE acc.count @@ (asym_id :> -1)
    IN  [comp |-> [comp0 EXCEPT ![asym_id] = @ \cup {comp_id}],
         count |-> [cnt0 EXCEPT ![asym_id] = @ + 1]]

\* One iteration of the loop of get_atom_site_chain_info.
ChainInfoRow(acc, row) ==
    LET asym_id == as_string(row.label_asym_id)
        comp_id == as_string(row.label_comp_id)
        comp0 == IF asym_id \in DOMAIN acc.comp THEN acc.comp
                 ELSE acc.comp @@ (asym_id :> {})
        cnt0 == IF asym_id \in DOMAIN acc.comp THEN acc.count
                ELSE acc.count @@ (asym_id :> 0)
    IN  [comp |-> [comp0 EXCEPT ![asym_id] = @ \cup {comp_id}],
         count |-> [cnt0 EXCEPT ![asym_id] = @ + 1]]

RECURSIVE ChainInfoRows(_, _)
ChainInfoRows(acc, rows) ==
    IF rows = <<>> THEN acc
    ELSE ChainInfoRows(ChainInfoRow(acc, Head(rows)), Tail(rows))

\* get_atom_site_chain_info: (chain_comp_ids, chain_atom_counts), two dicts
\* filled by one pass over the rows; both empty without the category.
get_atom_site_chain_info(block) ==
    LET empty == [comp |-> << >>, count |-> << >>]
    IN  IF block.atom_site.present
        THEN ChainInfoRows(empty, block.atom_site.rows)
        ELSE empty

\* detect_missing_asym_in_block.
detect_missing_asym_in_block(block) ==
    LET struct_asym_ids == get_struct_asym_ids(block)
        atom_site_ids == DOMAIN get_atom_site_chain_info(block).comp
    IN  sorted(atom_site_ids \ struct_asym_ids)

\* find_water_entity_id: block.find("_entity.", ["id", "type"]) needs both
\* columns; the id of the first row whose type reads "water", else None.
RECURSIVE FirstWaterId(_)
FirstWaterId(rows) ==
    IF rows = <<>> THEN None
    ELSE IF as_string(Head(rows).type) = WATER THEN as_string(Head(rows).id)
    ELSE FirstWaterId(Tail(rows))

find_water_entity_id(block) ==
    IF ~(block.entity.present /\ block.entity.has_type) THEN None
    ELSE FirstWaterId(block.entity.rows)

\* The loop of get_next_entity_id: max_id over the ids that int() accepts.
RECURSIVE MaxEntityId(_, _)
MaxEntityId(max_id, rows) ==
    IF rows = <<>> THEN max_id
    ELSE LET entity_id == int(as_string(Head(rows).id))
         IN  IF entity_id.ok
             THEN MaxEntityId(IF entity_id.value > max_id THEN entity_id.value
                              ELSE max_id, Tail(rows))
             ELSE MaxEntityId(max_id, Tail(rows))

\* get_next_entity_id returning str(max_id).
get_next_entity_id_max(block) ==
    str(MaxEntityId(0, IF block.entity.present THEN block.entity.rows
                       ELSE <<>>))

\* get_next_entity_id: max_id starts at 0.
get_next_entity_id(block) ==
    str(MaxEntityId(0, IF block.entity.present THEN block.entity.rows
                       ELSE <<>>) + 1)

\* _create_water_entity: append_row when block.find finds all of id, type
\* and pdbx_description; otherwise block.init_loop, which replaces whatever
\* the category held by an empty loop of the three tags, and add_row.
create_water_entity(block, entity_id) ==
    LET row == [id |-> entity_id, type |-> WATER, pdbx_description |-> WATER]
        e == block.entity
    IN  IF e.present /\ e.has_type /\ e.has_desc
        THEN [block EXCEPT !.entity.rows = Append(@, row)]
        ELSE [block EXCEPT !.entity =
                 [present |-> TRUE, has_type |-> TRUE, has_desc |-> TRUE,
                  rows |-> <<row>>]]

\* _find_or_create_water_entity: the block after the call and the id
\* returned; "if water_entity_id:" is false for None and for "".
find_or_create_water_entity(block) ==
    LET water_entity_id == find_water_entity_id(block)
        new_entity_id == get_next_entity_id(block)
    IN  IF water_entity_id # None /\ water_entity_id # <<>>
        THEN [block |-> block, id |-> water_entity_id]
        ELSE [block |-> create_water_entity(block, new_entity_id),
              id |-> new_entity_id]

\* The rows _add_to_struct_asym adds, in the order of asym_ids.
NewAsymRows(asym_ids, entity_id) ==
    [i \in 1..Len(asym_ids) |-> [id |-> asym_ids[i], entity_id |-> entity_id]]

\* _add_to_struct_asym: append_row when block.find finds both id and
\* entity_id; otherwise block.init_loop (the category is replaced by an
\* empty loop of the two tags) and add_row.
add_to_struct_asym(block, asym_ids, entity_id) ==
    LET sa == block.struct_asym
    IN  IF sa.present /\ sa.has_entity_id
        THEN [block EXCEPT !.struct_asym.rows =
                 @ \o NewAsymRows(asym_ids, entity_id)]
        ELSE [block EXCEPT !.struct_asym =
                 [present |-> TRUE, has_entity_id |-> TRUE,
                  rows |-> NewAsymRows(asym_ids, entity_id)]]

\* ------------------------------------------------------------- file system
\* What a path holds: nothing, bytes gemmi cannot parse, or a document (a
\* sequence of blocks, possibly empty).
Absent == [kind |-> "absent", blocks |-> <<>>]
Garbage == [kind |-> "garbage", blocks |-> <<>>]
Doc(blocks) == [kind |-> "doc", blocks |-> blocks]

\* A path is a stem and its suffixes, as pathlib sees it.
Path(stem, suffixes) == [stem |-> stem, suffixes |-> suffixes]
InPath == Path("in", <<".cif">>)
OutPath == Path("out", <<".cif">>)

\* cif_path.with_suffix(cif_path.suffix + ".bak")
backup_path(cif_path) == [cif_path EXCEPT !.suffixes = Append(@, ".bak")]

\* output_dir / file_path.name
OutputDir == "fixed"
Joined(output_dir, file_path) ==
    Path(output_dir \o "/" \o file_path.stem, file_path.suffixes)

\* Compressed files next to them: in.cif.gz and out.cif.gz.
GzInPath == Path("in", <<".cif", ".gz">>)
GzOutPath == Path("out", <<".cif", ".gz">>)
\* output_path_str.endswith(".gz")
endswith_gz(path) ==
    Len(path.suffixes) > 0 /\ path.suffixes[Len(path.suffixes)] = ".gz"
\* output_path.with_suffix(""): the path without its last suffix.
with_suffix_empty(path) ==
    [path EXCEPT !.suffixes = SubSeq(@, 1, Len(@) - 1)]

CallPaths == {InPath, OutPath}
GzPaths == {GzInPath, GzOutPath}
AllPaths ==
    CallPaths \cup {backup_path(p) : p \in CallPaths}
              \cup {Joined(OutputDir, p) : p \in CallPaths}
              \cup GzPaths \cup {backup_path(p) : p \in GzPaths}

\* cif.read taking bytes it cannot parse for a document of no block.
cif_read_lenient(content) ==
    [ok |-> content.kind # "absent", doc |-> content]

\* cif.read: raises (ok = FALSE) for a missing or unparsable file.
cif_read(content) ==
    [ok |-> content.kind = "doc", doc |-> content]

\* Whether some category of the block holds an empty raw token.
HasEmptyToken(block) ==
    \/ \E i \in 1..Len(block.struct_asym.rows) :
           <<>> \in {block.struct_asym.rows[i].id,
                     block.struct_asym.rows[i].entity_id}
    \/ \E i \in 1..Len(block.entity.rows) : block.entity.rows[i].id = <<>>

\* doc.write_file: the raw tokens are written as they are, so a row holding
\* an empty token is one value short and the file does not parse again.
write_file(doc) ==
    IF \E b \in 1..Len(doc.blocks) : HasEmptyToken(doc.blocks[b])
    THEN Garbage
    ELSE doc

\* ---------------------------------------------------------------- detection
NoFind ==
    [is_none |-> TRUE, pdb_id |-> <<>>, file_path |-> InPath,
     missing_asym_ids |-> <<>>, details |-> << >>]

\* find_missing_struct_asym without its "if not missing_ids: return None".
find_missing_struct_asym_always(content, cif_path) ==
    LET doc == cif_read(content)
    IN  IF ~doc.ok THEN NoFind
        ELSE IF Len(doc.doc.blocks) = 0 THEN NoFind
        ELSE LET block == doc.doc.blocks[1]
                 info == get_atom_site_chain_info(block)
                 missing_ids == DOMAIN info.comp \ get_struct_asym_ids(block)
             IN  [is_none |-> FALSE,
                  pdb_id |-> lower(block.name),
                  file_path |-> cif_path,
                  missing_asym_ids |-> sorted(missing_ids),
                  details |->
                      [asym_id \in missing_ids |->
                          [comp_ids |-> sorted(info.comp[asym_id]),
                           atom_count |-> info.count[asym_id]]]]

\* find_missing_struct_asym on the contents of cif_path.
find_missing_struct_asym(content, cif_path) ==
    LET doc == cif_read(content)
    IN  IF ~doc.ok THEN NoFind
        ELSE IF Len(doc.doc.blocks) = 0 THEN NoFind
        ELSE LET block == doc.doc.blocks[1]
                 pdb_id == lower(block.name)
                 struct_asym_ids == get_struct_asym_ids(block)
                 info == get_atom_site_chain_info(block)
                 atom_site_ids == DOMAIN info.comp
                 missing_ids == atom_site_ids \ struct_asym_ids
             IN  IF missing_ids = {} THEN NoFind
                 ELSE [is_none |-> FALSE,
                       pdb_id |-> pdb_id,
                       file_path |-> cif_path,
                       missing_asym_ids |-> sorted(missing_ids),
                       details |->
                           [asym_id \in missing_ids |->
                               [comp_ids |-> sorted(info.comp[asym_id]),
                                atom_count |-> info.count[asym_id]]]]

\* The script scripts/find_orphan_chains.py returning None.
NoOrphan ==
    [is_none |-> TRUE, pdb_id |-> <<>>, file_path |-> InPath,
     orphan_chains |-> <<>>, details |-> << >>]

\* struct_asym_ids of the script, filled with the raw tokens.
script_struct_asym_ids_raw(block) ==
    IF block.struct_asym.present
    THEN {block.struct_asym.rows[i].id : i \in 1..Len(block.struct_asym.rows)}
    ELSE {}

\* The script: block.find("_struct_asym.", ["id"]) and
\* struct_asym_ids.add(cif.as_string(row[0])) for each row.
script_struct_asym_ids(block) ==
    IF block.struct_asym.present
    THEN {as_string(block.struct_asym.rows[i].id) :
              i \in 1..Len(block.struct_asym.rows)}
    ELSE {}

\* The script: one iteration of the loop over _atom_site.
ScriptChainRow(acc, row) ==
    LET asym_id == as_string(row.label_asym_id)
        comp_id == as_string(row.label_comp_id)
        fresh == asym_id \notin DOMAIN acc.chain_comp_ids
        comp0 == IF fresh THEN acc.chain_comp_ids @@ (asym_id :> {})
                 ELSE acc.chain_comp_ids
        cnt0 == IF fresh THEN acc.chain_atom_counts @@ (asym_id :> 0)
                ELSE acc.chain_atom_counts
    IN  [chain_comp_ids |-> [comp0 EXCEPT ![asym_id] = @ \cup {comp_id}],
         chain_atom_counts |-> [cnt0 EXCEPT ![asym_id] = @ + 1]]

RECURSIVE ScriptChainRows(_, _)
ScriptChainRows(acc, rows) ==
    IF rows = <<>> THEN acc
    ELSE ScriptChainRows(ScriptChainRow(acc, Head(rows)), Tail(rows))

\* find_orphan_chains(cif_path) of the script, on the contents of cif_path:
\* its own cif.read in a try, the length check, and the two loops in line.
find_orphan_chains(content, cif_path) ==
    LET doc == cif_read(content)
    IN  IF ~doc.ok THEN NoOrphan
        ELSE IF Len(doc.doc.blocks) = 0 THEN NoOrphan
        ELSE LET block == doc.doc.blocks[1]
                 pdb_id == lower(block.name)
                 struct_asym_ids == script_struct_asym_ids(block)
                 empty == [chain_comp_ids |-> << >>, chain_atom_counts |-> << >>]
                 info == IF block.atom_site.present
                         THEN ScriptChainRows(empty, block.atom_site.rows)
                         ELSE empty
                 atom_site_ids == DOMAIN info.chain_comp_ids
                 orphan_ids == atom_site_ids \ struct_asym_ids
             IN  IF orphan_ids = {} THEN NoOrphan
                 ELSE [is_none |-> FALSE,
                       pdb_id |-> pdb_id,
                       file_path |-> cif_path,
                       orphan_chains |-> sorted(orphan_ids),
                       details |->
                           [chain_id \in orphan_ids |->
                               [comp_ids |-> sorted(info.chain_comp_ids[chain_id]),
                                atom_count |-> info.chain_atom_counts[chain_id]]]]

\* ------------------------------------------------------------------ inputs
\* Raw tokens of the input documents: chain ids A, B and ? in _atom_site;
\* A, 'B' and . in _struct_asym; entity ids 1, 02, -3, x and ?.
AtomAsymTokens == {<<65>>, <<66>>, <<63>>}
AtomCompTokens == {HOH, ALA}
AsymIdTokens == {<<65>>, <<39, 66, 39>>, <<46>>}
EntityIdTokens == {<<49>>, <<48, 50>>, <<45, 51>>, <<120>>, <<63>>}
EntityTypeTokens == {WATER, POLYMER}

SeqsUpTo(S, n) == UNION {[1..k -> S] : k \in 1..n}

AtomRow(a, c) == [label_asym_id |-> a, label_comp_id |-> c]
AsymRow(i, e) == [id |-> i, entity_id |-> e]
EntityRow(i, t, d) == [id |-> i, type |-> t, pdbx_description |-> d]

AtomSites(n) ==
    {NoAtomSite} \cup
    {[present |-> TRUE, rows |-> r] :
        r \in SeqsUpTo({AtomRow(a, c) :
                           a \in AtomAsymTokens, c \in AtomCompTokens}, n)}

\* _struct_asym with its entity_id column (every row bound to entity 1).
StructAsyms(n) ==
    {NoStructAsym} \cup
    {[present |-> TRUE, has_entity_id |-> TRUE, rows |-> r] :
        r \in SeqsUpTo({AsymRow(i, <<49>>) : i \in AsymIdTokens}, n)}

\* _struct_asym without the entity_id column.
BareStructAsyms(n) ==
    {[present |-> TRUE, has_entity_id |-> FALSE, rows |-> r] :
        r \in SeqsUpTo({AsymRow(i, NoColumn) : i \in AsymIdTokens}, n)}

\* _entity with id and type (and pdbx_description when has_desc), or with
\* id alone.
Entities(has_desc, n) ==
    {[present |-> TRUE, has_type |-> TRUE, has_desc |-> has_desc, rows |-> r] :
        r \in SeqsUpTo({EntityRow(i, t, IF has_desc THEN t ELSE NoColumn) :
                           i \in EntityIdTokens, t \in EntityTypeTokens}, n)}
    \cup
    {[present |-> TRUE, has_type |-> FALSE, has_desc |-> has_desc, rows |-> r] :
        r \in SeqsUpTo({EntityRow(i, NoColumn,
                                  IF has_desc THEN WATER ELSE NoColumn) :
                           i \in EntityIdTokens}, n)}

Block(name, sa, e, at) ==
    [name |-> name, struct_asym |-> sa, entity |-> e, atom_site |-> at]

\* data_TEST1
TEST1 == <<84, 69, 83, 84, 49>>
\* data_x2
X2 == <<120, 50>>

\* One chain A of ALA and one undeclared chain B of water.
OrphanAtoms ==
    [present |-> TRUE, rows |-> <<AtomRow(<<65>>, ALA), AtomRow(<<66>>, HOH)>>]
\* Two chains of water, B undeclared.
WaterAtoms ==
    [present |-> TRUE, rows |-> <<AtomRow(<<65>>, HOH), AtomRow(<<66>>, HOH)>>]
DeclaredA ==
    [present |-> TRUE, has_entity_id |-> TRUE, rows |-> <<AsymRow(<<65>>, <<49>>)>>]
\* 1 polymer, 2 water
PolymerAndWater ==
    [present |-> TRUE, has_type |-> TRUE, has_desc |-> TRUE,
     rows |-> <<EntityRow(<<49>>, POLYMER, POLYMER), EntityRow(<<50>>, WATER, WATER)>>]

\* A second block, which nothing reads: an undeclared chain of water.
SecondBlock == Block(X2, NoStructAsym, NoEntity, OrphanAtoms)

\* Files that are no document, or a document of no block or of two blocks.
OddFiles ==
    {Absent, Garbage, Doc(<<>>)}
    \cup {Doc(<<b, SecondBlock>>) :
             b \in {Block(X2, DeclaredA, NoEntity, OrphanAtoms),
                    Block(TEST1, DeclaredA, NoEntity, NoAtomSite)}}

\* The documents detection is run on: every list of atom rows against every
\* list of declarations.
DetectFiles ==
    OddFiles \cup
    {Doc(<<Block(TEST1, sa, NoEntity, at)>>) :
        sa \in StructAsyms(MaxAsymRows) \cup BareStructAsyms(MaxAsymRows),
        at \in AtomSites(MaxAtomRows)}

\* The documents one repair is run on: those, shorter, and every _entity
\* category next to one undeclared chain of water.
RepairFiles ==
    OddFiles
    \cup {Doc(<<Block(TEST1, sa, e, at)>>) :
             sa \in StructAsyms(RepairAsymRows) \cup BareStructAsyms(RepairAsymRows),
             e \in {NoEntity},
             at \in AtomSites(RepairAtomRows)}
    \cup {Doc(<<Block(TEST1, DeclaredA, e, OrphanAtoms)>>) :
             e \in Entities(TRUE, MaxEntityRows) \cup Entities(FALSE, MaxEntityRows)}

\* The documents repair is run on repeatedly.
RepeatFiles ==
    OddFiles
    \cup {Doc(<<Block(TEST1, sa, e, at)>>) :
             sa \in StructAsyms(RepairAsymRows) \cup BareStructAsyms(RepairAsymRows),
             e \in {NoEntity, PolymerAndWater},
             at \in {OrphanAtoms, WaterAtoms}}
    \cup {Doc(<<Block(TEST1, DeclaredA, e, OrphanAtoms)>>) :
             e \in Entities(TRUE, 1) \cup Entities(FALSE, 1)}

\* ------------------------------------------------------------------- state
VARIABLES
    fs,               \* path -> what the path holds
    fs0,              \* fs as it was when the last call was entered
    pc,               \* "idle", or the step fix_missing_struct_asym is at
    call,             \* its arguments (output_path resolved)
    orig,             \* the document as cif.read returned it
    doc,              \* the document in memory
    missing_ids,      \* its local missing_ids
    water_entity_id,  \* its local water_entity_id
    result,           \* what the last call returned
    prev,             \* what the call before it returned
    found,            \* the last find_missing_struct_asym call and its result
    calls,            \* number of calls of fix_missing_struct_asym so far
    main,             \* the repair command (fix_cmd.main) in progress
    scan,             \* the scan (scan_pdb_mirror, find_cmd.main) in progress
    orphans           \* the last find_orphan_chains call of the script and its result

vars ==
    <<fs, fs0, pc, call, orig, doc, missing_ids, water_entity_id, result, prev,
      found, calls, main, scan, orphans>>

NonePath == Path("", <<>>)
NoError == [kind |-> "none", asym_id |-> <<>>, comp_ids |-> {}]
NoCall == [cif_path |-> NonePath, output_path |-> NonePath, backup |-> FALSE]
NoResult ==
    [outcome |-> "none", pdb_id |-> <<>>, input_path |-> NonePath,
     output_path |-> NonePath, success |-> FALSE, asym_ids_fixed |-> <<>>,
     water_entity_id |-> None, error |-> NoError]
NoFound == [called |-> FALSE, cif_path |-> NonePath, value |-> NoFind]
\* The script has not been called.
NoOrphans == [called |-> FALSE, cif_path |-> NonePath, value |-> NoOrphan]
\* No command is running; report is the counters of the repair report, -1
\* while there is none.
NoMain ==
    [pc |-> "none", input_json |-> FALSE, files |-> FALSE, in_place |-> FALSE,
     output_dir |-> FALSE, backup |-> FALSE, file_paths |-> <<>>, i |-> 0,
     results |-> <<>>, exit_code |-> -1,
     report |-> [total |-> -1, fixed |-> -1, skipped |-> -1, failed |-> -1]]
\* ScanResult(total_scanned, affected_entries, entries); scan_date, the
\* day of the scan, is left out.
ScanResult(total_scanned, affected_entries, entries) ==
    [total_scanned |-> total_scanned, affected_entries |-> affected_entries,
     entries |-> entries]
\* No scan is running. limit -1 is None; candidates is files before the
\* sample, kept for reference; progress is the calls the progress callback
\* has received, as pairs (current, total).
NoScan ==
    [pc |-> "none", cli |-> FALSE, mirror_path |-> FALSE, file_list |-> <<>>,
     file_list_given |-> FALSE, limit |-> -1, workers |-> 0, enumerated |-> FALSE,
     candidates |-> <<>>, files |-> <<>>, started |-> 0, done |-> {},
     results |-> <<>>, exit_code |-> -1, report |-> ScanResult(0, 0, <<>>),
     progress |-> <<>>]

\* FixResult(...) filled with the water entity id found so far, whatever the
\* return statement passes.
FixResult_entity_so_far(pdb_id, success, asym_ids_fixed, weid, error) ==
    [outcome |-> "returned", pdb_id |-> pdb_id, input_path |-> call.cif_path,
     output_path |-> call.output_path, success |-> success,
     asym_ids_fixed |-> asym_ids_fixed, water_entity_id |-> water_entity_id,
     error |-> error]

\* FixResult(...) as the function returns it.
FixResult(pdb_id, success, asym_ids_fixed, weid, error) ==
    [outcome |-> "returned", pdb_id |-> pdb_id, input_path |-> call.cif_path,
     output_path |-> call.output_path, success |-> success,
     asym_ids_fixed |-> asym_ids_fixed, water_entity_id |-> weid,
     error |-> error]

\* The state before any call: the file f at InPath, c calls already spent.
InitWith(files, c) ==
    /\ \E f \in files :
           fs = [p \in AllPaths |-> IF p = InPath THEN f ELSE Absent]
    /\ fs0 = fs
    /\ pc = "idle"
    /\ call = NoCall
    /\ orig = Absent
    /\ doc = Absent
    /\ missing_ids = <<>>
    /\ water_entity_id = None
    /\ result = NoResult
    /\ prev = NoResult
    /\ found = NoFound
    /\ calls = c
    /\ main = NoMain
    /\ scan = NoScan
    /\ orphans = NoOrphans

Init == InitWith(RepeatFiles, 0)
\* One call of the repair.
InitRepair == InitWith(RepairFiles, MaxFixCalls - 1)
\* Detection alone.
InitDetect == InitWith(DetectFiles, 0)

\* ----------------------------------------------------------------- actions
\* The end of a call of fix_missing_struct_asym that returns r.
Return(r) ==
    /\ result' = r
    /\ pc' = "idle"

\* fix_missing_struct_asym(cif_path, output_path, backup) is entered:
\* output_path None means cif_path.
FixStart(cif_path, output_path, backup) ==
    /\ pc = "idle"
    /\ calls < MaxFixCalls
    /\ calls' = calls + 1
    /\ call' = [cif_path |-> cif_path,
                output_path |-> IF output_path = NonePath THEN cif_path
                                ELSE output_path,
                backup |-> backup]
    /\ pc' = "read"
    /\ prev' = result
    /\ result' = NoResult
    /\ orig' = Absent
    /\ doc' = Absent
    /\ missing_ids' = <<>>
    /\ water_entity_id' = None
    /\ found' = NoFound
    /\ fs0' = fs
    /\ UNCHANGED <<fs, main, scan, orphans>>

\* doc = cif.read(input_path_str), RuntimeError and OSError caught.
FixRead ==
    /\ pc = "read"
    /\ LET r == cif_read(fs[call.cif_path])
       IN  IF ~r.ok
           THEN /\ Return(FixResult(<<>>, FALSE, <<>>, None,
                                    [NoError EXCEPT !.kind = "read"]))
                /\ UNCHANGED <<orig, doc, orphans>>
           ELSE /\ orig' = r.doc
                /\ doc' = r.doc
                /\ pc' = "empty"
                /\ UNCHANGED result
    /\ UNCHANGED <<fs, fs0, call, missing_ids, water_entity_id, prev, found, calls, main, scan, orphans>>

\* if len(doc) == 0
FixEmpty ==
    /\ pc = "empty"
    /\ IF Len(doc.blocks) = 0
       THEN Return(FixResult(<<>>, FALSE, <<>>, None,
                             [NoError EXCEPT !.kind = "empty"]))
       ELSE pc' = "detect" /\ UNCHANGED result
    /\ UNCHANGED <<fs, fs0, call, orig, doc, missing_ids, water_entity_id, prev, found, calls, main, scan, orphans>>

\* FixDetect writing the unchanged document to output_path when nothing is
\* missing.
FixDetect_writes ==
    /\ pc = "detect"
    /\ LET block == doc.blocks[1]
           ids == detect_missing_asym_in_block(block)
       IN  /\ missing_ids' = ids
           /\ IF ids = <<>>
              THEN /\ Return(FixResult(lower(block.name), TRUE, <<>>, None, NoError))
                   /\ fs' = [fs EXCEPT ![call.output_path] = write_file(doc)]
              ELSE pc' = "verify" /\ UNCHANGED <<result, fs, orphans>>
    /\ UNCHANGED <<fs0, call, orig, doc, water_entity_id, prev, found, calls, main, scan, orphans>>

\* missing_ids = detect_missing_asym_in_block(block); nothing missing is a
\* success that changes nothing.
FixDetect ==
    /\ pc = "detect"
    /\ LET block == doc.blocks[1]
           ids == detect_missing_asym_in_block(block)
       IN  /\ missing_ids' = ids
           /\ IF ids = <<>>
              THEN Return(FixResult(lower(block.name), TRUE, <<>>, None, NoError))
              ELSE pc' = "verify" /\ UNCHANGED result
    /\ UNCHANGED <<fs, fs0, call, orig, doc, water_entity_id, prev, found, calls, main, scan, orphans>>

\* The check written as "HOH" not in comp_ids.
RECURSIVE FirstNonWater_contains(_, _, _)
FirstNonWater_contains(chain_comp_ids, asym_ids, i) ==
    IF i > Len(asym_ids) THEN 0
    ELSE LET comp_ids == IF asym_ids[i] \in DOMAIN chain_comp_ids
                         THEN chain_comp_ids[asym_ids[i]] ELSE {}
         IN  IF HOH \notin comp_ids THEN i
             ELSE FirstNonWater_contains(chain_comp_ids, asym_ids, i + 1)

\* The first id of asym_ids, in order, whose component set is not {"HOH"}
\* (0 when there is none).
RECURSIVE FirstNonWater(_, _, _)
FirstNonWater(chain_comp_ids, asym_ids, i) ==
    IF i > Len(asym_ids) THEN 0
    ELSE LET comp_ids == IF asym_ids[i] \in DOMAIN chain_comp_ids
                         THEN chain_comp_ids[asym_ids[i]] ELSE {}
         IN  IF comp_ids # {HOH} THEN i
             ELSE FirstNonWater(chain_comp_ids, asym_ids, i + 1)

\* Verify all missing entries are water (HOH).
FixVerify ==
    /\ pc = "verify"
    /\ LET block == doc.blocks[1]
           chain_comp_ids == get_atom_site_chain_info(block).comp
           i == FirstNonWater(chain_comp_ids, missing_ids, 1)
       IN  IF i # 0
           THEN Return(FixResult(lower(block.name), FALSE, <<>>, None,
                                 [kind |-> "non-water",
                                  asym_id |-> missing_ids[i],
                                  comp_ids |-> chain_comp_ids[missing_ids[i]]]))
           ELSE pc' = "entity" /\ UNCHANGED result
    /\ UNCHANGED <<fs, fs0, call, orig, doc, missing_ids, water_entity_id, prev, found, calls, main, scan, orphans>>

\* water_entity_id = _find_or_create_water_entity(block)
FixEntity ==
    /\ pc = "entity"
    /\ LET r == find_or_create_water_entity(doc.blocks[1])
       IN  /\ doc' = [doc EXCEPT !.blocks[1] = r.block]
           /\ water_entity_id' = r.id
    /\ pc' = "asym"
    /\ UNCHANGED <<fs, fs0, call, orig, missing_ids, result, prev, found, calls, main, scan, orphans>>

\* _add_to_struct_asym(block, missing_ids, water_entity_id)
FixAsym ==
    /\ pc = "asym"
    /\ doc' = [doc EXCEPT !.blocks[1] =
                  add_to_struct_asym(@, missing_ids, water_entity_id)]
    /\ pc' = "backup"
    /\ UNCHANGED <<fs, fs0, call, orig, missing_ids, water_entity_id, result, prev, found, calls, main, scan, orphans>>

\* FixBackup copying the document in memory instead of the file.
FixBackup_copies_doc ==
    /\ pc = "backup"
    /\ IF call.backup /\ call.output_path = call.cif_path
       THEN \/ /\ fs' = [fs EXCEPT ![backup_path(call.cif_path)] = write_file(doc)]
               /\ pc' = "write"
               /\ UNCHANGED result
            \/ /\ result' = [NoResult EXCEPT !.outcome = "raised"]
               /\ pc' = "idle"
               /\ UNCHANGED fs
       ELSE /\ pc' = "write"
            /\ UNCHANGED <<fs, result, orphans>>
    /\ UNCHANGED <<fs0, call, orig, doc, missing_ids, water_entity_id, prev, found, calls, main, scan, orphans>>

\* if backup and output_path == cif_path: shutil.copy2(cif_path, backup_path).
\* The copy is outside the try block: when it fails the exception leaves
\* the function.
FixBackup ==
    /\ pc = "backup"
    /\ IF call.backup /\ call.output_path = call.cif_path
       THEN \/ /\ fs' = [fs EXCEPT ![backup_path(call.cif_path)] = fs[call.cif_path]]
               /\ pc' = "write"
               /\ UNCHANGED result
            \/ /\ result' = [NoResult EXCEPT !.outcome = "raised"]
               /\ pc' = "idle"
               /\ UNCHANGED fs
       ELSE /\ pc' = "write"
            /\ UNCHANGED <<fs, result, orphans>>
    /\ UNCHANGED <<fs0, call, orig, doc, missing_ids, water_entity_id, prev, found, calls, main, scan, orphans>>

\* doc.write_file(output_path_str); OSError and RuntimeError are caught, and
\* the file may by then be left unparsable.
FixWrite ==
    /\ pc = "write"
    /\ ~endswith_gz(call.output_path)
    /\ \/ /\ fs' = [fs EXCEPT ![call.output_path] = write_file(doc)]
          /\ Return(FixResult(lower(doc.blocks[1].name), TRUE, missing_ids,
                              water_entity_id, NoError))
       \/ /\ \E left \in {fs[call.output_path], Garbage} :
                 fs' = [fs EXCEPT ![call.output_path] = left]
          /\ Return(FixResult(lower(doc.blocks[1].name), FALSE, <<>>, None,
                              [NoError EXCEPT !.kind = "write"]))
    /\ UNCHANGED <<fs0, call, orig, doc, missing_ids, water_entity_id, prev, found, calls, main, scan, orphans>>

\* Handle gzip output: doc.write_file(str(temp_path)), the temporary being
\* output_path.with_suffix(""); a failure is caught and may leave it partly
\* written.
FixWriteTemp ==
    /\ pc = "write"
    /\ endswith_gz(call.output_path)
    /\ LET temp_path == with_suffix_empty(call.output_path)
       IN  \/ /\ fs' = [fs EXCEPT ![temp_path] = write_file(doc)]
              /\ pc' = "compress"
              /\ UNCHANGED result
           \/ /\ \E left \in {fs[temp_path], Garbage} :
                     fs' = [fs EXCEPT ![temp_path] = left]
              /\ Return(FixResult(lower(doc.blocks[1].name), FALSE, <<>>, None,
                                  [NoError EXCEPT !.kind = "write"]))
    /\ UNCHANGED <<fs0, call, orig, doc, missing_ids, water_entity_id, prev, found, calls, main, scan, orphans>>

\* FixCompress reporting the ids although the compression failed.
FixCompress_reports_ids ==
    /\ pc = "compress"
    /\ LET temp_path == with_suffix_empty(call.output_path)
       IN  \/ /\ fs' = [fs EXCEPT ![call.output_path] = fs[temp_path]]
              /\ pc' = "unlink"
              /\ UNCHANGED result
           \/ /\ fs' = [fs EXCEPT ![call.output_path] = Garbage]
              /\ Return(FixResult(lower(doc.blocks[1].name), FALSE, missing_ids,
                                  water_entity_id,
                                  [NoError EXCEPT !.kind = "write"]))
    /\ UNCHANGED <<fs0, call, orig, doc, missing_ids, water_entity_id, prev, found, calls, main, scan, orphans>>

\* gzip.open(output_path_str, "wb") and f_out.write(f_in.read()): the output
\* is truncated on opening; a failure is caught and leaves it unreadable,
\* the temporary staying where it is.
FixCompress ==
    /\ pc = "compress"
    /\ LET temp_path == with_suffix_empty(call.output_path)
       IN  \/ /\ fs' = [fs EXCEPT ![call.output_path] = fs[temp_path]]
              /\ pc' = "unlink"
              /\ UNCHANGED result
           \/ /\ fs' = [fs EXCEPT ![call.output_path] = Garbage]
              /\ Return(FixResult(lower(doc.blocks[1].name), FALSE, <<>>, None,
                                  [NoError EXCEPT !.kind = "write"]))
    /\ UNCHANGED <<fs0, call, orig, doc, missing_ids, water_entity_id, prev, found, calls, main, scan, orphans>>

\* temp_path.unlink(), then the success return.
FixUnlink ==
    /\ pc = "unlink"
    /\ fs' = [fs EXCEPT ![with_suffix_empty(call.output_path)] = Absent]
    /\ Return(FixResult(lower(doc.blocks[1].name), TRUE, missing_ids,
                        water_entity_id, NoError))
    /\ UNCHANGED <<fs0, call, orig, doc, missing_ids, water_entity_id, prev, found, calls, main, scan, orphans>>

\* find_missing_struct_asym(cif_path), called between two repairs.
Find(cif_path) ==
    /\ pc = "idle"
    /\ found' = [called |-> TRUE, cif_path |-> cif_path,
                 value |-> find_missing_struct_asym(fs[cif_path], cif_path)]
    /\ UNCHANGED <<fs, fs0, pc, call, orig, doc, missing_ids, water_entity_id,
                   result, prev, calls, main, scan, orphans>>

Next ==
    \/ \E cif_path \in CallPaths, output_path \in {NonePath, OutPath},
          backup \in BOOLEAN : FixStart(cif_path, output_path, backup)
    \/ FixRead
    \/ FixEmpty
    \/ FixDetect
    \/ FixVerify
    \/ FixEntity
    \/ FixAsym
    \/ FixBackup
    \/ FixWrite
    \/ \E cif_path \in CallPaths : Find(cif_path)

\* detect_missing_asym_in_block on the first block of the document at
\* cif_path.
DetectBlock(cif_path) ==
    /\ pc = "idle"
    /\ cif_read(fs[cif_path]).ok
    /\ Len(fs[cif_path].blocks) > 0
    /\ orig' = fs[cif_path]
    /\ missing_ids' = detect_missing_asym_in_block(fs[cif_path].blocks[1])
    /\ UNCHANGED <<fs, fs0, pc, call, doc, water_entity_id, result, prev, found, calls, main, scan, orphans>>

\* Detection alone.
NextDetect ==
    \/ \E cif_path \in CallPaths : Find(cif_path)
    \/ \E cif_path \in CallPaths : DetectBlock(cif_path)

\* Repeated repairs of one file, with detection in between.
Spec == Init /\ [][Next]_vars
\* One repair of any document, with detection before and after.
SpecRepair == InitRepair /\ [][Next]_vars
\* Detection on any document.
SpecDetect == InitDetect /\ [][NextDetect]_vars

\* find_orphan_chains(cif_path) of the script.
FindOrphanChains(cif_path) ==
    /\ pc = "idle"
    /\ orphans' = [called |-> TRUE, cif_path |-> cif_path,
                   value |-> find_orphan_chains(fs[cif_path], cif_path)]
    /\ UNCHANGED <<fs, fs0, pc, call, orig, doc, missing_ids, water_entity_id,
                   result, prev, found, calls, main, scan>>

\* The documents the three detectors are run on.
AgreeFiles ==
    OddFiles \cup
    {Doc(<<Block(TEST1, sa, NoEntity, at)>>) :
        sa \in StructAsyms(RepairAsymRows) \cup BareStructAsyms(RepairAsymRows),
        at \in AtomSites(RepairAtomRows)}
InitAgree == InitWith(AgreeFiles, 0)

NextAgree ==
    \/ \E cif_path \in CallPaths : Find(cif_path)
    \/ \E cif_path \in CallPaths : DetectBlock(cif_path)
    \/ \E cif_path \in CallPaths : FindOrphanChains(cif_path)

\* The three detectors on any document.
SpecAgree == InitAgree /\ [][NextAgree]_vars

\* ------------------------------------------------------- the repair command
\* A repairable file, a file with nothing to repair and a file whose
\* undeclared chain is not water.
WaterOrphan == Doc(<<Block(TEST1, DeclaredA, NoEntity, WaterAtoms)>>)
Clean == Doc(<<Block(X2, DeclaredA, NoEntity, NoAtomSite)>>)
NonWaterOrphan == Doc(<<Block(TEST1, NoStructAsym, NoEntity, OrphanAtoms)>>)
BatchFiles == {Absent, Clean, WaterOrphan, NonWaterOrphan}

\* The state before the command: one file at each of the two paths.
InitBatch ==
    /\ \E f1, f2 \in BatchFiles :
           fs = [p \in AllPaths |->
                    IF p = InPath THEN f1 ELSE IF p = OutPath THEN f2 ELSE Absent]
    /\ fs0 = fs
    /\ pc = "idle"
    /\ call = NoCall
    /\ orig = Absent
    /\ doc = Absent
    /\ missing_ids = <<>>
    /\ water_entity_id = None
    /\ result = NoResult
    /\ prev = NoResult
    /\ found = NoFound
    /\ calls = 0
    /\ main = NoMain
    /\ scan = NoScan
    /\ orphans = NoOrphans

\* main(input_json, files, output_dir, in_place, backup, ...) is entered;
\* paths is what --files holds or what the entries of --input name.
MainStart(input_json, files, in_place, output_dir, backup, paths) ==
    /\ main.pc = "none"
    /\ pc = "idle"
    /\ files => paths # <<>>
    /\ main' = [NoMain EXCEPT !.pc = "validate", !.input_json = input_json,
                              !.files = files, !.in_place = in_place,
                              !.output_dir = output_dir, !.backup = backup,
                              !.file_paths = paths]
    /\ UNCHANGED <<fs, fs0, pc, call, orig, doc, missing_ids, water_entity_id,
                   result, prev, found, calls, scan, orphans>>

\* Whether main's "Validate arguments" lets the arguments through.
ValidArguments(m) ==
    /\ m.input_json \/ m.files
    /\ ~(m.input_json /\ m.files)
    /\ m.in_place \/ m.output_dir
    /\ ~(m.in_place /\ m.output_dir)

\* Validate arguments: raise typer.Exit(code=1) on either pair.
MainValidate ==
    /\ main.pc = "validate"
    /\ main' = IF ValidArguments(main)
               THEN [main EXCEPT !.pc = "collect"]
               ELSE [main EXCEPT !.pc = "exit", !.exit_code = 1]
    /\ UNCHANGED <<fs, fs0, pc, call, orig, doc, missing_ids, water_entity_id,
                   result, prev, found, calls, scan, orphans>>

\* Collect files to process; an empty list ends the command with code 0.
MainCollect ==
    /\ main.pc = "collect"
    /\ main' = IF main.file_paths = <<>>
               THEN [main EXCEPT !.pc = "exit", !.exit_code = 0]
               ELSE [main EXCEPT !.pc = "loop", !.i = 1]
    /\ UNCHANGED <<fs, fs0, pc, call, orig, doc, missing_ids, water_entity_id,
                   result, prev, found, calls, scan, orphans>>

\* result = fix_missing_struct_asym(file_path, output_path, backup=backup)
MainCall ==
    /\ main.pc = "loop"
    /\ main.i <= Len(main.file_paths)
    /\ calls = main.i - 1
    /\ LET file_path == main.file_paths[main.i]
           output_path == IF main.output_dir THEN Joined(OutputDir, file_path)
                          ELSE NonePath
       IN  FixStart(file_path, output_path, main.backup)

\* results.append(result)
MainAppend ==
    /\ main.pc = "loop"
    /\ pc = "idle"
    /\ calls = main.i
    /\ result.outcome = "returned"
    /\ main' = [main EXCEPT !.results = Append(@, result), !.i = @ + 1]
    /\ UNCHANGED <<fs, fs0, pc, call, orig, doc, missing_ids, water_entity_id,
                   result, prev, found, calls, scan, orphans>>

\* The call raised: nothing in main catches it, the command ends there.
MainRaised ==
    /\ main.pc = "loop"
    /\ pc = "idle"
    /\ calls = main.i
    /\ result.outcome = "raised"
    /\ main' = [main EXCEPT !.pc = "exit", !.exit_code = 1]
    /\ UNCHANGED <<fs, fs0, pc, call, orig, doc, missing_ids, water_entity_id,
                   result, prev, found, calls, scan, orphans>>

\* all(...) written for any(...).
AnyFailure_all(results) == \A k \in 1..Len(results) : ~results[k].success

\* any(not r.success for r in results)
AnyFailure(results) == \E k \in 1..Len(results) : ~results[k].success

\* sum(1 for r in results if r.success and r.asym_ids_fixed)
success_count(results) ==
    Cardinality({k \in 1..Len(results) :
                    results[k].success /\ results[k].asym_ids_fixed # <<>>})
\* The skipped counter counting every success.
skip_count_every_success(results) ==
    Cardinality({k \in 1..Len(results) : results[k].success})
\* sum(1 for r in results if r.success and not r.asym_ids_fixed)
skip_count(results) ==
    Cardinality({k \in 1..Len(results) :
                    results[k].success /\ results[k].asym_ids_fixed = <<>>})
\* sum(1 for r in results if not r.success)
fail_count(results) ==
    Cardinality({k \in 1..Len(results) : ~results[k].success})

\* Output results, then exit with error code if any failures.
MainExit ==
    /\ main.pc = "loop"
    /\ main.i > Len(main.file_paths)
    /\ main' = [main EXCEPT !.pc = "exit",
                            !.report = [total |-> Len(main.results),
                                        fixed |-> success_count(main.results),
                                        skipped |-> skip_count(main.results),
                                        failed |-> fail_count(main.results)],
                            !.exit_code = IF AnyFailure(main.results) THEN 1 ELSE 0]
    /\ UNCHANGED <<fs, fs0, pc, call, orig, doc, missing_ids, water_entity_id,
                   result, prev, found, calls, scan, orphans>>

\* The lists of at most n paths.
PathLists(n) == {<<>>} \cup SeqsUpTo(CallPaths, n)

NextBatch ==
    \/ \E input_json, files, in_place, output_dir, backup \in BOOLEAN,
          paths \in PathLists(MaxFixCalls) :
           MainStart(input_json, files, in_place, output_dir, backup, paths)
    \/ MainValidate
    \/ MainCollect
    \/ MainCall
    \/ FixRead
    \/ FixEmpty
    \/ FixDetect
    \/ FixVerify
    \/ FixEntity
    \/ FixAsym
    \/ FixBackup
    \/ FixWrite
    \/ MainAppend
    \/ MainRaised
    \/ MainExit

\* The repair command on a list of files.
SpecBatch == InitBatch /\ [][NextBatch]_vars

\* ------------------------------------------------------- compressed files
\* A file that was already at a path.
Bystander == Doc(<<Block(X2, NoStructAsym, NoEntity, NoAtomSite)>>)
GzFiles == {Absent, Garbage, Clean, WaterOrphan, NonWaterOrphan}

\* The state before one repair: a compressed file at in.cif.gz, a plain one
\* at in.cif, and possibly files already at out.cif.gz and out.cif.
InitGz ==
    /\ \E f1, f2 \in GzFiles, s1, s2 \in {Absent, Bystander} :
           fs = [p \in AllPaths |->
                    IF p = GzInPath THEN f1
                    ELSE IF p = InPath THEN f2
                    ELSE IF p = GzOutPath THEN s1
                    ELSE IF p = OutPath THEN s2
                    ELSE Absent]
    /\ fs0 = fs
    /\ pc = "idle"
    /\ call = NoCall
    /\ orig = Absent
    /\ doc = Absent
    /\ missing_ids = <<>>
    /\ water_entity_id = None
    /\ result = NoResult
    /\ prev = NoResult
    /\ found = NoFound
    /\ calls = MaxFixCalls - 1
    /\ main = NoMain
    /\ scan = NoScan
    /\ orphans = NoOrphans

NextGz ==
    \/ \E cif_path \in {GzInPath, InPath},
          output_path \in {NonePath, GzOutPath, OutPath},
          backup \in BOOLEAN : FixStart(cif_path, output_path, backup)
    \/ FixRead
    \/ FixEmpty
    \/ FixDetect
    \/ FixVerify
    \/ FixEntity
    \/ FixAsym
    \/ FixBackup
    \/ FixWrite
    \/ FixWriteTemp
    \/ FixCompress
    \/ FixUnlink

\* One repair among compressed and plain files.
SpecGz == InitGz /\ [][NextGz]_vars

\* ------------------------------------------------------------------ the scan
\* An affected file of another entry.
OrphanX2 == Doc(<<Block(X2, NoStructAsym, NoEntity, WaterAtoms)>>)
ScanFiles == {Absent, Garbage, Doc(<<>>), Clean, WaterOrphan, OrphanX2}

\* The state before the scan: one file at each of the two paths.
InitScan ==
    /\ \E f1, f2 \in ScanFiles :
           fs = [p \in AllPaths |->
                    IF p = InPath THEN f1 ELSE IF p = OutPath THEN f2 ELSE Absent]
    /\ fs0 = fs
    /\ pc = "idle"
    /\ call = NoCall
    /\ orig = Absent
    /\ doc = Absent
    /\ missing_ids = <<>>
    /\ water_entity_id = None
    /\ result = NoResult
    /\ prev = NoResult
    /\ found = NoFound
    /\ calls = 0
    /\ main = NoMain
    /\ scan = NoScan
    /\ orphans = NoOrphans

\* enumerate_cif_files(mirror_path): the files the mirror holds, in the
\* order of the walk.
RECURSIVE Existing(_, _)
Existing(files, paths) ==
    IF paths = <<>> THEN <<>>
    ELSE (IF files[Head(paths)].kind = "absent" THEN <<>> ELSE <<Head(paths)>>)
         \o Existing(files, Tail(paths))
enumerate_cif_files(files) == Existing(files, <<InPath, OutPath>>)

\* random.choices for random.sample: positions may repeat.
sample_with_replacement(files, limit) ==
    {[k \in 1..limit |-> files[pos[k]]] : pos \in [1..limit -> 1..Len(files)]}

\* random.sample(files, limit): limit elements at distinct positions, in any
\* order.
sample(files, limit) ==
    {[k \in 1..limit |-> files[pos[k]]] :
        pos \in {q \in [1..limit -> 1..Len(files)] :
                    \A j, k \in 1..limit : j # k => q[j] # q[k]}}

\* _process_file(file_path)
process_file(content, file_path) == find_missing_struct_asym(content, file_path)

\* results.sort(...) left out.
sort_by_pdb_id_unsorted(results) == results

\* One result put in its place among sorted ones: after every result whose
\* pdb_id is not greater (the sort is stable).
RECURSIVE Insert(_, _)
Insert(sorted_results, r) ==
    IF sorted_results = <<>> THEN <<r>>
    ELSE LET last == sorted_results[Len(sorted_results)]
         IN  IF StrLess(r.pdb_id, last.pdb_id)
             THEN Append(Insert(SubSeq(sorted_results, 1, Len(sorted_results) - 1), r),
                         last)
             ELSE Append(sorted_results, r)

\* results.sort(key=lambda r: r.pdb_id)
RECURSIVE sort_by_pdb_id(_)
sort_by_pdb_id(results) ==
    IF results = <<>> THEN <<>>
    ELSE Insert(sort_by_pdb_id(SubSeq(results, 1, Len(results) - 1)),
                results[Len(results)])

\* total_scanned counting the results instead of the files.
scan_result_counting_results(files, results) ==
    ScanResult(Len(results), Len(results), sort_by_pdb_id(results))

\* The sort and the ScanResult built from it.
scan_result(files, results) ==
    ScanResult(Len(files), Len(results), sort_by_pdb_id(results))

\* scan_pdb_mirror(mirror_path, workers, file_list, limit=limit) is entered.
ScanStart(workers, file_list_given, file_list, limit) ==
    /\ scan.pc = "none"
    /\ ~file_list_given => file_list = <<>>
    /\ scan' = [NoScan EXCEPT !.pc = "collect", !.mirror_path = TRUE,
                              !.workers = workers,
                              !.file_list_given = file_list_given,
                              !.file_list = file_list, !.limit = limit]
    /\ UNCHANGED <<fs, fs0, pc, call, orig, doc, missing_ids, water_entity_id,
                   result, prev, found, calls, main, orphans>>

\* find_cmd.main(mirror_path, files, workers, limit, ...) is entered; --files
\* given holds at least one path.
FindMainStart(mirror_path, workers, files_given, files, limit) ==
    /\ scan.pc = "none"
    /\ files_given <=> files # <<>>
    /\ limit # 0
    /\ scan' = [NoScan EXCEPT !.pc = "validate", !.cli = TRUE,
                              !.mirror_path = mirror_path, !.workers = workers,
                              !.file_list_given = files_given,
                              !.file_list = files, !.limit = limit]
    /\ UNCHANGED <<fs, fs0, pc, call, orig, doc, missing_ids, water_entity_id,
                   result, prev, found, calls, main, orphans>>

\* find_cmd.main: Validate arguments.
FindMainValidate ==
    /\ scan.pc = "validate"
    /\ scan' = IF scan.mirror_path = scan.file_list_given
               THEN [scan EXCEPT !.pc = "done", !.exit_code = 1]
               ELSE [scan EXCEPT !.pc = "collect"]
    /\ UNCHANGED <<fs, fs0, pc, call, orig, doc, missing_ids, water_entity_id,
                   result, prev, found, calls, main, orphans>>

\* Collect file paths: "if file_list:" is false for None and for [].
ScanCollect ==
    /\ scan.pc = "collect"
    /\ LET files == IF scan.file_list # <<>> THEN scan.file_list
                    ELSE enumerate_cif_files(fs)
       IN  scan' = [scan EXCEPT !.pc = "sample", !.files = files,
                                !.candidates = files,
                                !.enumerated = (scan.file_list = <<>>)]
    /\ UNCHANGED <<fs, fs0, pc, call, orig, doc, missing_ids, water_entity_id,
                   result, prev, found, calls, main, orphans>>

\* Apply limit if specified (random sample).
ScanSample ==
    /\ scan.pc = "sample"
    /\ IF scan.limit # -1 /\ scan.limit < Len(scan.files)
       THEN \E files \in sample(scan.files, scan.limit) :
                scan' = [scan EXCEPT !.pc = "pool", !.files = files]
       ELSE scan' = [scan EXCEPT !.pc = "pool"]
    /\ UNCHANGED <<fs, fs0, pc, call, orig, doc, missing_ids, water_entity_id,
                   result, prev, found, calls, main, orphans>>

\* A free worker of the pool takes the next file.
WorkerTake ==
    /\ scan.pc = "pool"
    /\ scan.started < Len(scan.files)
    /\ scan.started - Cardinality(scan.done) < scan.workers
    /\ scan' = [scan EXCEPT !.started = @ + 1]
    /\ UNCHANGED <<fs, fs0, pc, call, orig, doc, missing_ids, water_entity_id,
                   result, prev, found, calls, main, orphans>>

\* WorkerFinish calling the callback only for a file that produced a result.
WorkerFinish_skips_none(i) ==
    /\ scan.pc = "pool"
    /\ i \in 1..scan.started
    /\ i \notin scan.done
    /\ LET r == process_file(fs[scan.files[i]], scan.files[i])
       IN  scan' = [scan EXCEPT !.done = @ \cup {i},
                                !.results = IF r.is_none THEN @ ELSE Append(@, r),
                                !.progress =
                                    IF r.is_none THEN @
                                    ELSE Append(@, <<Len(scan.results) + 1,
                                                     Len(scan.files)>>)]
    /\ UNCHANGED <<fs, fs0, pc, call, orig, doc, missing_ids, water_entity_id,
                   result, prev, found, calls, main, orphans>>

\* imap_unordered yields the result of file i, whichever worker ends first;
\* "if result is not None: results.append(result)", then
\* progress_callback(i + 1, len(files)), i counting the results yielded so
\* far.
WorkerFinish(i) ==
    /\ scan.pc = "pool"
    /\ i \in 1..scan.started
    /\ i \notin scan.done
    /\ LET r == process_file(fs[scan.files[i]], scan.files[i])
       IN  scan' = [scan EXCEPT !.done = @ \cup {i},
                                !.results = IF r.is_none THEN @ ELSE Append(@, r),
                                !.progress = Append(@, <<Cardinality(scan.done) + 1,
                                                         Len(scan.files)>>)]
    /\ UNCHANGED <<fs, fs0, pc, call, orig, doc, missing_ids, water_entity_id,
                   result, prev, found, calls, main, orphans>>

\* The pool is exhausted: sort by PDB ID and return the ScanResult.
ScanReturn ==
    /\ scan.pc = "pool"
    /\ Cardinality(scan.done) = Len(scan.files)
    /\ scan' = [scan EXCEPT !.pc = "done",
                            !.report = scan_result(scan.files, scan.results),
                            !.exit_code = IF scan.cli THEN 0 ELSE @]
    /\ UNCHANGED <<fs, fs0, pc, call, orig, doc, missing_ids, water_entity_id,
                   result, prev, found, calls, main, orphans>>

\* The arguments of a scan: any list of at most MaxScanFiles paths, with or
\* without a limit.
ScanCall ==
    /\ scan.pc = "none"
    /\ \E workers \in 1..MaxWorkers, file_list_given \in BOOLEAN,
          file_list \in PathLists(MaxScanFiles), limit \in -1..MaxLimit :
           ScanStart(workers, file_list_given, file_list, limit)
FindMainCall ==
    /\ scan.pc = "none"
    /\ \E mirror_path \in BOOLEAN, workers \in 1..MaxWorkers,
          files_given \in BOOLEAN, files \in PathLists(MaxScanFiles),
          limit \in -1..MaxLimit :
           FindMainStart(mirror_path, workers, files_given, files, limit)

NextScan ==
    \/ ScanCall
    \/ FindMainCall
    \/ FindMainValidate
    \/ ScanCollect
    \/ ScanSample
    \/ WorkerTake
    \/ \E i \in 1..MaxScanFiles : WorkerFinish(i)
    \/ ScanReturn

\* One scan of a list of files or of the mirror.
SpecScan == InitScan /\ [][NextScan]_vars

\* ------------------------------------------------------------ vocabulary
\* What the claims are stated in: the rows of a block, read directly.
AtomRowsOf(block) == IF block.atom_site.present THEN block.atom_site.rows ELSE <<>>
\* The chain ids that occur in the atom rows.
AtomIds(block) ==
    {as_string(AtomRowsOf(block)[i].label_asym_id) : i \in 1..Len(AtomRowsOf(block))}
\* The declared ids.
DeclaredIds(block) ==
    IF block.struct_asym.present
    THEN {as_string(block.struct_asym.rows[i].id) : i \in 1..Len(block.struct_asym.rows)}
    ELSE {}
\* The atom rows that carry chain id a.
RowsOfChain(block, a) ==
    {i \in 1..Len(AtomRowsOf(block)) : as_string(AtomRowsOf(block)[i].label_asym_id) = a}
Elements(list) == {list[i] : i \in 1..Len(list)}
\* Ascending without duplicates.
StrictlyAscending(list) ==
    \A i \in 1..(Len(list) - 1) : StrLess(list[i], list[i + 1])
IsDocument(content) == content.kind = "doc" /\ Len(content.blocks) > 0
\* The file the last find_missing_struct_asym call was given.
FoundFile == fs[found.cif_path]

\* ------------------------------------------------------------------ claims
\* C1: for every block, detect_missing_asym_in_block and the
\* missing_asym_ids of find_missing_struct_asym are exactly the chain ids of
\* the atom rows minus the declared ids, in ascending order, no duplicate.
C1_UndeclaredIsSetDifference ==
    /\ (found.called /\ IsDocument(FoundFile)) =>
           LET block == FoundFile.blocks[1]
               list == found.value.missing_asym_ids
           IN  /\ Elements(list) = AtomIds(block) \ DeclaredIds(block)
               /\ StrictlyAscending(list)
    /\ (pc = "idle" /\ IsDocument(orig)) =>
           LET block == orig.blocks[1]
           IN  /\ Elements(missing_ids) = AtomIds(block) \ DeclaredIds(block)
               /\ StrictlyAscending(missing_ids)

\* C1 witness: detection returned two undeclared ids of a block that also
\* has a declared chain among its atom rows.
C1_Witness ==
    /\ found.called /\ IsDocument(FoundFile)
    /\ Len(found.value.missing_asym_ids) = 2
    /\ AtomIds(FoundFile.blocks[1]) \cap DeclaredIds(FoundFile.blocks[1]) # {}
    /\ IsDocument(orig) /\ orig = FoundFile /\ Len(missing_ids) = 2

\* C2: find_missing_struct_asym returns no result when every chain id of the
\* atom rows is declared (or there is no atom category), and every result it
\* returns lists at least one id.
C2_ResultOnlyWhenUndeclared ==
    found.called =>
        /\ (IsDocument(FoundFile)
              /\ AtomIds(FoundFile.blocks[1]) \subseteq DeclaredIds(FoundFile.blocks[1]))
           => found.value.is_none
        /\ ~found.value.is_none => found.value.missing_asym_ids # <<>>

\* C2 witness: no result for a document whose atom rows are all declared.
C2_Witness ==
    /\ found.called /\ IsDocument(FoundFile)
    /\ AtomIds(FoundFile.blocks[1]) # {}
    /\ AtomIds(FoundFile.blocks[1]) \subseteq DeclaredIds(FoundFile.blocks[1])
    /\ found.value.is_none

\* C3: in every result the keys of details are the missing ids; comp_ids is
\* the sorted set of the component codes of the atom rows of that chain and
\* atom_count the number of those rows; pdb_id is the first block's name in
\* lower case.
C3_DetailsOfResult ==
    (found.called /\ ~found.value.is_none) =>
        LET block == FoundFile.blocks[1]
            r == found.value
        IN  /\ IsDocument(FoundFile)
            /\ DOMAIN r.details = Elements(r.missing_asym_ids)
            /\ \A a \in DOMAIN r.details :
                   /\ Elements(r.details[a].comp_ids) =
                          {as_string(AtomRowsOf(block)[i].label_comp_id) :
                              i \in RowsOfChain(block, a)}
                   /\ StrictlyAscending(r.details[a].comp_ids)
                   /\ r.details[a].atom_count = Cardinality(RowsOfChain(block, a))
            /\ Len(r.pdb_id) = Len(block.name)
            /\ \A i \in 1..Len(block.name) :
                   r.pdb_id[i] = IF block.name[i] \in 65..90
                                 THEN block.name[i] + 32 ELSE block.name[i]

\* C3 witness: declared A, rows (A,ALA), (B,HOH), (B,HOH): B -> ([HOH], 2),
\* identity test1 for data_TEST1.
C3_Witness ==
    /\ found.called /\ ~found.value.is_none
    /\ FoundFile.blocks[1].name = TEST1
    /\ found.value.pdb_id = <<116, 101, 115, 116, 49>>
    /\ DeclaredIds(FoundFile.blocks[1]) = {<<65>>}
    /\ found.value.missing_asym_ids = << <<66>> >>
    /\ found.value.details[<<66>>] = [comp_ids |-> <<HOH>>, atom_count |-> 2]

\* The undeclared ids of a block and the component codes of a chain.
Undeclared(block) == AtomIds(block) \ DeclaredIds(block)
CompsOfChain(block, a) ==
    {as_string(AtomRowsOf(block)[i].label_comp_id) : i \in RowsOfChain(block, a)}
\* The last call of fix_missing_struct_asym has returned r.
Returned == pc = "idle" /\ result.outcome = "returned"
\* It repaired something and wrote it.
Repaired == Returned /\ result.success /\ result.asym_ids_fixed # <<>>
\* It ended before the mutation step.
EndedEarly ==
    /\ Returned
    /\ \/ result.error.kind \in {"read", "empty", "non-water"}
       \/ result.success /\ result.asym_ids_fixed = <<>>
\* The rows of kind "water" of an _entity category.
WaterRows(e) ==
    IF e.present /\ e.has_type
    THEN {i \in 1..Len(e.rows) : as_string(e.rows[i].type) = WATER}
    ELSE {}
Min(S) == CHOOSE x \in S : \A y \in S : x <= y
Max(S) == CHOOSE x \in S : \A y \in S : x >= y
\* The entity ids of a category that are integers, as integers.
IntegerIds(e) ==
    {int(as_string(e.rows[i].id)).value :
        i \in {j \in 1..Len(e.rows) : int(as_string(e.rows[j].id)).ok}}

\* C4: after a successful repair, detection on the repair's output path
\* finds no undeclared id, whether the output is a separate file or the
\* input itself.
C4_DetectionAfterRepairIsClean ==
    (Returned /\ result.success /\ found.called
        /\ found.cif_path = result.output_path)
    => found.value.is_none

\* C5: a second repair, run on the output of a first successful one, finds
\* nothing undeclared at the detection step, adds no row and returns success
\* with an empty asym_ids_fixed.
C5_SecondRepairChangesNothing ==
    (/\ prev.outcome = "returned" /\ prev.success
     /\ prev.asym_ids_fixed # <<>> \/ prev.output_path = prev.input_path
     /\ call.cif_path = prev.output_path)
    => /\ pc \notin {"verify", "entity", "asym", "backup", "write"}
       /\ pc = "idle" =>
              /\ result.outcome = "returned" /\ result.success
              /\ result.asym_ids_fixed = <<>>
              /\ doc = orig /\ fs = fs0

\* C6: the repair goes past the eligibility check only if every undeclared
\* id has component set {"HOH"}; if one has not, the call fails, its error
\* names an undeclared id that is not pure water with that id's codes,
\* asym_ids_fixed is empty and nothing is written.
C6_AllOrNothingEligibility ==
    IsDocument(orig) =>
        LET block == orig.blocks[1]
            allWater == \A a \in Undeclared(block) : CompsOfChain(block, a) = {HOH}
        IN  /\ pc \in {"entity", "asym", "backup", "write"} => allWater
            /\ Repaired => allWater
            /\ (pc = "idle" /\ result.outcome # "none" /\ ~allWater) =>
                   /\ result.outcome = "returned" /\ ~result.success
                   /\ result.error.kind = "non-water"
                   /\ result.error.asym_id \in Undeclared(block)
                   /\ result.error.comp_ids =
                          CompsOfChain(block, result.error.asym_id)
                   /\ result.error.comp_ids # {HOH}
                   /\ result.asym_ids_fixed = <<>>
                   /\ result.water_entity_id = None
                   /\ doc = orig /\ fs = fs0

\* C6 witness: two undeclared chains, one of water and one not; the call
\* failed.
C6_Witness ==
    /\ Returned /\ IsDocument(orig) /\ result.error.kind = "non-water"
    /\ \E a, b \in Undeclared(orig.blocks[1]) :
           /\ CompsOfChain(orig.blocks[1], a) = {HOH}
           /\ CompsOfChain(orig.blocks[1], b) = {ALA}

\* C7: a call that ends before the mutation step (read failure, empty
\* document, nothing undeclared, ineligible) has written nothing: no path
\* holds anything else than when the call was entered, the backup path
\* included, and no row was added to the document.
C7_NoWriteBeforeMutation ==
    /\ pc \in {"read", "empty", "detect", "verify"} => fs = fs0
    /\ EndedEarly => (fs = fs0 /\ doc = orig)

\* C7 witness: an in-place call with backup=True that failed the
\* eligibility check.
C7_Witness ==
    /\ EndedEarly /\ result.error.kind = "non-water"
    /\ call.backup /\ call.output_path = call.cif_path
    /\ fs[backup_path(call.cif_path)] = Absent

\* C8: when the _entity category has a row of type "water", a successful
\* repair reports the id of the first such row as water_entity_id, binds
\* every repaired id to it and adds no _entity row.
C8_ReuseExistingWaterEntity ==
    (Repaired /\ WaterRows(orig.blocks[1].entity) # {}) =>
        LET e == orig.blocks[1].entity
            first == as_string(e.rows[Min(WaterRows(e))].id)
            sa == doc.blocks[1].struct_asym
        IN  /\ result.water_entity_id = first
            /\ doc.blocks[1].entity = e
            /\ \A i \in 1..Len(sa.rows) :
                   sa.rows[i].id \in Elements(result.asym_ids_fixed)
                       => sa.rows[i].entity_id = first

\* C9: when no _entity row has type "water", the id used is max(integer
\* entity ids) + 1, "1" when there is no integer id, and exactly one row
\* (id, water) is appended to the _entity category.
C9_SynthesizedWaterEntity ==
    (Repaired /\ WaterRows(orig.blocks[1].entity) = {}) =>
        LET e == orig.blocks[1].entity
            expected == IF IntegerIds(e) = {} THEN <<49>>
                        ELSE str(Max(IntegerIds(e)) + 1)
            rows == doc.blocks[1].entity.rows
        IN  /\ result.water_entity_id = expected
            /\ Len(rows) = Len(e.rows) + 1
            /\ SubSeq(rows, 1, Len(e.rows)) = e.rows
            /\ rows[Len(rows)].id = expected
            /\ rows[Len(rows)].type = WATER

\* C10: on a file that cannot be opened or parsed, or holds no block,
\* detection returns no result; the repair returns a failure, a read error
\* for the first and an empty-document error for the second; the open check
\* comes before the empty check and both before detection.
C10_UnreadableAndEmpty ==
    /\ (found.called /\ ~IsDocument(FoundFile)) => found.value.is_none
    /\ pc \notin {"idle", "read"} => fs0[call.cif_path].kind = "doc"
    /\ pc \notin {"idle", "read", "empty"} => IsDocument(fs0[call.cif_path])
    /\ (pc = "idle" /\ result.outcome # "none"
          /\ ~IsDocument(fs0[call.cif_path])) =>
           /\ result.outcome = "returned" /\ ~result.success
           /\ result.error.kind =
                  IF fs0[call.cif_path].kind = "doc" THEN "empty" ELSE "read"
           /\ result.pdb_id = <<>> /\ missing_ids = <<>>
           /\ result.asym_ids_fixed = <<>>

\* C10 witness: the repair of a document of no block failed with the
\* empty-document error, and detection on the same file returned nothing.
C10_Witness ==
    /\ Returned /\ result.error.kind = "empty"
    /\ fs0[call.cif_path] = Doc(<<>>)
    /\ found.called /\ found.cif_path = call.cif_path /\ found.value.is_none

\* The repair command went through its file list to the end.
Processed ==
    /\ main.pc = "exit" /\ ValidArguments(main) /\ main.file_paths # <<>>
    /\ Len(main.results) = Len(main.file_paths)

\* C11: whatever happens on a file, fix_missing_struct_asym returns an
\* outcome and raises nothing, and the repair command ends with exactly one
\* outcome per file of its list, in the order of the list.
C11_OneOutcomePerFile ==
    /\ result.outcome # "raised"
    /\ (main.pc = "exit" /\ ValidArguments(main)) =>
           /\ Len(main.results) = Len(main.file_paths)
           /\ \A k \in 1..Len(main.results) :
                  main.results[k].input_path = main.file_paths[k]

\* C12: when the repair command has processed a non-empty list, its exit
\* code is not 0 exactly when some outcome has success = false.
C12_ExitStatus ==
    Processed =>
        /\ main.exit_code \in {0, 1}
        /\ main.exit_code # 0 <=>
               \E k \in 1..Len(main.results) : main.results[k].success = FALSE

\* C12 witness: a batch of a repaired file and a failed one ended with
\* exit code 1.
C12_Witness ==
    /\ Processed /\ main.exit_code = 1
    /\ \E j, k \in 1..Len(main.results) :
           /\ main.results[j].success /\ main.results[j].asym_ids_fixed # <<>>
           /\ ~main.results[k].success

\* The scan has returned its report.
ScanDone == scan.pc = "done" /\ scan.exit_code # 1
\* The positions of the dispatched list whose file has an undeclared id.
Affected ==
    {i \in 1..Len(scan.files) :
        /\ IsDocument(fs[scan.files[i]])
        /\ Undeclared(fs[scan.files[i]].blocks[1]) # {}}
\* The one-to-one maps from the entries of the report onto the affected
\* positions, each entry being the result of the file at its position.
EntryPositions ==
    {pos \in [1..Len(scan.report.entries) -> Affected] :
        /\ \A j, k \in 1..Len(scan.report.entries) : j # k => pos[j] # pos[k]
        /\ \A k \in 1..Len(scan.report.entries) :
               /\ scan.report.entries[k].file_path = scan.files[pos[k]]
               /\ scan.report.entries[k].pdb_id =
                      lower(fs[scan.files[pos[k]]].blocks[1].name)
               /\ ~scan.report.entries[k].is_none}

\* C13: in the report of a scan the entries are in non-decreasing order of
\* pdb_id, they are the results of the affected dispatched files, one each
\* and none for the others, affected_entries is their number, total_scanned
\* is the number of files dispatched, and affected_entries <= total_scanned.
C13_ReportInvariants ==
    ScanDone =>
        LET report == scan.report
        IN  /\ \A k \in 1..(Len(report.entries) - 1) :
                   ~StrLess(report.entries[k + 1].pdb_id, report.entries[k].pdb_id)
            /\ Len(report.entries) = Cardinality(Affected)
            /\ EntryPositions # {}
            /\ report.affected_entries = Len(report.entries)
            /\ report.total_scanned = Len(scan.files)
            /\ report.affected_entries <= report.total_scanned

\* C13 witness: a report of two entries whose files were listed in
\* descending order of pdb_id.
C13_Witness ==
    /\ ScanDone /\ Len(scan.files) = 2 /\ Len(scan.report.entries) = 2
    /\ \E i, j \in Affected :
           /\ i < j
           /\ StrLess(lower(fs[scan.files[j]].blocks[1].name),
                       lower(fs[scan.files[i]].blocks[1].name))

\* C14: the entries of the report and their order do not depend on the
\* number of workers nor on the order in which the workers end: they are
\* what one worker yields, entries of equal pdb_id in the order of the list.
C14_OrderIndependent ==
    (ScanDone /\ scan.files = scan.candidates) =>
        \E pos \in EntryPositions :
            \A j, k \in 1..Len(scan.report.entries) :
                (/\ j < k
                 /\ scan.report.entries[j].pdb_id = scan.report.entries[k].pdb_id)
                => pos[j] < pos[k]

\* C15: a file that cannot be read or parsed, or holds no block, gives no
\* entry and is counted in total_scanned; every affected file of the batch
\* has its entry all the same.
C15_BadFileIsSkipped ==
    ScanDone =>
        /\ \A i \in 1..Len(scan.files) :
               ~IsDocument(fs[scan.files[i]]) =>
                   \A k \in 1..Len(scan.report.entries) :
                       scan.report.entries[k].file_path # scan.files[i]
        /\ scan.report.total_scanned = Len(scan.files)
        /\ \A i \in Affected :
               \E k \in 1..Len(scan.report.entries) :
                   scan.report.entries[k].file_path = scan.files[i]

\* C15 witness: a scan of a file that is no document followed by an
\* affected file returned the entry of the second and counted both.
C15_Witness ==
    /\ ScanDone /\ Len(scan.files) = 2
    /\ ~IsDocument(fs[scan.files[1]]) /\ Affected = {2}
    /\ Len(scan.report.entries) = 1 /\ scan.report.total_scanned = 2

\* C16: scan_pdb_mirror given an explicit file list scans exactly that list
\* and never enumerates the mirror; given an empty list it reports
\* total_scanned = 0, affected_entries = 0 and no entry.
C16_ExplicitListOnly ==
    (~scan.cli /\ scan.file_list_given
        /\ scan.pc \in {"sample", "pool", "done"}) =>
        /\ ~scan.enumerated
        /\ scan.candidates = scan.file_list
        /\ (scan.pc = "done" /\ scan.file_list = <<>>) =>
               scan.report = ScanResult(0, 0, <<>>)

\* C17: with a limit L the dispatched files are L of the n candidates (all
\* of them when L >= n), at distinct positions; they are chosen before any
\* worker starts and do not change afterwards; total_scanned = min(L, n).
C17_SampleBeforeDispatch ==
    /\ [](scan.limit # -1 =>
            LET n == Len(scan.candidates)
                m == IF scan.limit < n THEN scan.limit ELSE n
            IN  /\ scan.pc \in {"validate", "collect", "sample"} =>
                       (scan.started = 0 /\ scan.done = {})
                /\ scan.pc \in {"pool", "done"} /\ scan.exit_code # 1 =>
                       /\ Len(scan.files) = m
                       /\ scan.limit >= n => scan.files = scan.candidates
                       /\ \E pos \in [1..m -> 1..n] :
                              /\ \A j, k \in 1..m : j # k => pos[j] # pos[k]
                              /\ \A k \in 1..m :
                                     scan.files[k] = scan.candidates[pos[k]]
                /\ ScanDone => scan.report.total_scanned = m)
    /\ [][scan.pc = "pool" => scan.files' = scan.files]_vars

\* C17 witness: two workers scanned 2 files sampled from 3 candidates.
C17_Witness ==
    /\ ScanDone /\ scan.limit = 2 /\ Len(scan.candidates) = 3
    /\ scan.workers = 2 /\ scan.report.total_scanned = 2

\* The last call got as far as the write step.
ReachedWrite ==
    \/ pc = "write"
    \/ /\ Returned
       /\ \/ result.success /\ result.asym_ids_fixed # <<>>
          \/ result.error.kind = "write"

\* C18: when a repair in place with backup=True reaches the write step, the
\* .bak sibling holds what the input file held when the call was entered,
\* and it does so before anything is written to the output path; when the
\* output is another path or backup is not set, the .bak path is untouched.
C18_BackupBeforeWrite ==
    call # NoCall =>
        LET bak == backup_path(call.cif_path)
        IN  /\ (ReachedWrite /\ call.backup /\ call.output_path = call.cif_path)
                   => fs[bak] = fs0[call.cif_path]
            /\ pc = "write" => fs[call.output_path] = fs0[call.output_path]
            /\ ~(call.backup /\ call.output_path = call.cif_path)
                   => fs[bak] = fs0[bak]

\* C18 witness: a repair in place with backup=True changed the file and the
\* .bak sibling holds the former contents.
C18_Witness ==
    /\ Repaired /\ call.backup /\ call.output_path = call.cif_path
    /\ fs[call.cif_path] # fs0[call.cif_path]
    /\ fs[backup_path(call.cif_path)] = fs0[call.cif_path]

\* C19: the repair command given neither or both of --input and --files, or
\* neither or both of --output and --in-place, ends with a non-zero code
\* before any file is read or written; nothing else ends the command before
\* the end of its list.
C19_OnlyValidationAborts ==
    /\ ~ValidArguments(main) =>
           /\ main.pc \in {"none", "validate", "exit"}
           /\ calls = 0 /\ pc = "idle" /\ fs = fs0 /\ main.results = <<>>
           /\ main.pc = "exit" => main.exit_code = 1
    /\ (ValidArguments(main) /\ main.pc = "exit") =>
           Len(main.results) = Len(main.file_paths)

\* C20: a successful repair of a non-empty undeclared set appends to
\* _struct_asym one row (id, g) for each undeclared id, in ascending order
\* of id and after the rows that were there, g being the water_entity_id
\* of the outcome; asym_ids_fixed is the sorted list of the undeclared ids;
\* the category is created when the block had none.
C20_RowsAppended ==
    Repaired =>
        LET before == orig.blocks[1].struct_asym.rows
            after == doc.blocks[1].struct_asym
            fixed == result.asym_ids_fixed
            g == result.water_entity_id
        IN  /\ Elements(fixed) = Undeclared(orig.blocks[1])
            /\ StrictlyAscending(fixed)
            /\ g # None
            /\ after.present
            /\ Len(after.rows) = Len(before) + Len(fixed)
            /\ SubSeq(after.rows, 1, Len(before)) = before
            /\ \A k \in 1..Len(fixed) :
                   after.rows[Len(before) + k] = AsymRow(fixed[k], g)

\* The rows of a sequence, as a set.
RowSet(rows) == {rows[i] : i \in 1..Len(rows)}

\* C21: after a successful repair the declared ids are those of the input
\* together with its undeclared ids, every _struct_asym row and every
\* _entity row of the input is still there unchanged, and _atom_site is
\* unchanged, also when _struct_asym has no entity_id column or _entity no
\* pdbx_description column.
C21_RepairOnlyAppends ==
    Repaired =>
        LET before == orig.blocks[1]
            after == doc.blocks[1]
        IN  /\ DeclaredIds(after) = DeclaredIds(before) \cup Undeclared(before)
            /\ RowSet(before.struct_asym.rows) \subseteq RowSet(after.struct_asym.rows)
            /\ RowSet(before.entity.rows) \subseteq RowSet(after.entity.rows)
            /\ after.atom_site = before.atom_site

\* The last repair created a water entity.
Synthesized ==
    Repaired /\ doc.blocks[1].entity # orig.blocks[1].entity

\* C22: the id of a water entity the repair creates is the entity_id of no
\* _struct_asym row of the input, so that no chain declared before is bound
\* to the new water entity.
C22_SynthesizedIdUnused ==
    Synthesized =>
        \A i \in 1..Len(orig.blocks[1].struct_asym.rows) :
            as_string(orig.blocks[1].struct_asym.rows[i].entity_id)
                # result.water_entity_id

\* The last call of fix_missing_struct_asym has ended, by a return or by an
\* exception.
Ended == call # NoCall /\ pc = "idle" /\ result.outcome # "none"
\* The paths the call may touch: its output path and, for a repair in place
\* with backup, the .bak sibling.
MayTouch ==
    {call.output_path} \cup
    (IF call.backup /\ call.output_path = call.cif_path
     THEN {backup_path(call.cif_path)} ELSE {})

\* C23: whatever the outcome, no path other than the output path and the
\* .bak path of a repair in place holds anything else after the call than
\* before it: the temporary of a .gz output is gone, and a file that was at
\* the path of the temporary is neither overwritten nor deleted.
C23_OnlyOutputAndBackup ==
    Ended => \A p \in AllPaths \ MayTouch : fs[p] = fs0[p]

\* The write step of the last call has failed: the call has returned with a
\* write error.
WriteFailed == Returned /\ result.error.kind = "write"

\* C24: a call that ends at the write step (plain write, write of the
\* temporary, compression or removal of the temporary) either returns a
\* success, or returns a failure with a write error, an empty asym_ids_fixed
\* and no water_entity_id, although the in-memory document declares the ids.
C24_WriteFailureIsFailure ==
    [][(pc \in {"write", "compress", "unlink"} /\ pc' = "idle") =>
          /\ result'.outcome = "returned"
          /\ \/ /\ result'.success
                /\ result'.error = NoError
                /\ result'.asym_ids_fixed = missing_ids
             \/ /\ ~result'.success
                /\ result'.error.kind = "write"
                /\ result'.asym_ids_fixed = <<>>
                /\ result'.water_entity_id = None
                /\ Elements(missing_ids) \subseteq DeclaredIds(doc.blocks[1])
                /\ missing_ids # <<>>]_vars
\* The compression failed after the temporary was written from the mutated
\* document.
C24_Witness ==
    /\ WriteFailed
    /\ endswith_gz(call.output_path)
    /\ doc # orig
    /\ fs[with_suffix_empty(call.output_path)] = doc
    /\ fs[call.output_path] = Garbage

\* C25: the progress callback has been called once per completed file, the
\* k-th call with (k, N), N being the number of dispatched files, whichever
\* files have completed and whether or not they produced a result; when the
\* scan returns it has been called N times, the last time with (N, N).
C25_ProgressCounts ==
    /\ Len(scan.progress) = Cardinality(scan.done)
    /\ \A k \in 1..Len(scan.progress) : scan.progress[k] = <<k, Len(scan.files)>>
    /\ ScanDone =>
          /\ Len(scan.progress) = Len(scan.files)
          /\ scan.files # <<>> =>
                scan.progress[Len(scan.progress)] = <<Len(scan.files), Len(scan.files)>>
\* A scan of three files has returned, some with and some without a result.
C25_Witness ==
    /\ ScanDone
    /\ Len(scan.files) = 3
    /\ Len(scan.results) \in {1, 2}
    /\ Len(scan.progress) = 3

\* The sum of the values of a map over the keys S.
RECURSIVE SumOver(_, _)
SumOver(f, S) ==
    IF S = {} THEN 0
    ELSE LET k == CHOOSE x \in S : TRUE
         IN  f[k] + SumOver(f, S \ {k})
\* Detection has read the block of a document.
Detected == pc = "idle" /\ call = NoCall /\ IsDocument(orig)

\* C26: for the block detection has read, the composition map and the count
\* map of get_atom_site_chain_info have the same keys, the chain ids that
\* occur in the atom rows; every key has a count of at least 1 and a
\* non-empty composition set; the counts add up to the number of atom rows;
\* without the atom category both maps are empty.
C26_ChainInfoMaps ==
    Detected =>
        LET block == orig.blocks[1]
            info == get_atom_site_chain_info(block)
        IN  /\ DOMAIN info.comp = DOMAIN info.count
            /\ DOMAIN info.comp = AtomIds(block)
            /\ \A a \in DOMAIN info.comp :
                   /\ info.count[a] >= 1
                   /\ info.comp[a] # {}
            /\ SumOver(info.count, DOMAIN info.count) = Len(AtomRowsOf(block))
            /\ ~block.atom_site.present =>
                   DOMAIN info.comp = {} /\ DOMAIN info.count = {}
\* Three atom rows on two chains, one chain with two rows.
C26_Witness ==
    /\ Detected
    /\ Len(AtomRowsOf(orig.blocks[1])) = 3
    /\ Cardinality(AtomIds(orig.blocks[1])) = 2
    /\ \E a \in AtomIds(orig.blocks[1]) :
           get_atom_site_chain_info(orig.blocks[1]).count[a] = 2


\* C27: every FixResult that fix_missing_struct_asym returns is well-formed:
\* a success carries no error; a failure carries an error, an empty
\* asym_ids_fixed and no water_entity_id; and water_entity_id is there
\* exactly when asym_ids_fixed is not empty.
C27_WellFormedResult ==
    Returned =>
        /\ result.success => result.error = NoError
        /\ ~result.success =>
              /\ result.error # NoError
              /\ result.error.kind # "none"
              /\ result.asym_ids_fixed = <<>>
              /\ result.water_entity_id = None
        /\ result.water_entity_id # None <=> result.asym_ids_fixed # <<>>
\* A write failure after the water entity was found: the outcome carries
\* neither the ids nor the water entity id.
C27_Witness ==
    /\ WriteFailed
    /\ water_entity_id # None
    /\ missing_ids # <<>>
    /\ result.water_entity_id = None

\* The repair command has put out its report.
Reported == main.pc = "exit" /\ main.report.total # -1
\* The outcomes of the report that are fixed, skipped and failed.
FixedOutcomes ==
    {k \in 1..Len(main.results) :
        main.results[k].success /\ main.results[k].asym_ids_fixed # <<>>}
SkippedOutcomes ==
    {k \in 1..Len(main.results) :
        main.results[k].success /\ main.results[k].asym_ids_fixed = <<>>}
FailedOutcomes == {k \in 1..Len(main.results) : ~main.results[k].success}

\* C28: in every repair report fixed, skipped and failed count three sets
\* of outcomes that are pairwise disjoint and cover the results, so that
\* total = fixed + skipped + failed = number of results = number of input
\* files.
C28_CountersPartition ==
    Reported =>
        /\ main.report.fixed = Cardinality(FixedOutcomes)
        /\ main.report.skipped = Cardinality(SkippedOutcomes)
        /\ main.report.failed = Cardinality(FailedOutcomes)
        /\ FixedOutcomes \cap SkippedOutcomes = {}
        /\ FixedOutcomes \cap FailedOutcomes = {}
        /\ SkippedOutcomes \cap FailedOutcomes = {}
        /\ FixedOutcomes \cup SkippedOutcomes \cup FailedOutcomes = 1..Len(main.results)
        /\ main.report.total =
              main.report.fixed + main.report.skipped + main.report.failed
        /\ main.report.total = Len(main.results)
        /\ main.report.total = Len(main.file_paths)
\* A report over two files, one fixed and one skipped.
C28_Witness ==
    /\ Reported
    /\ main.report.total = 2
    /\ main.report.fixed = 1
    /\ main.report.skipped = 1

\* The rows of the _entity category of a block.
EntityRowsOf(block) == IF block.entity.present THEN block.entity.rows ELSE <<>>

\* C29: for the block a call has read, the id get_next_entity_id returns
\* differs from the id of every row of the _entity category, as written
\* and as read by as_string, and is above every id that reads as an
\* integer; a repair that synthesizes the water entity uses that id.
C29_NextIdIsFresh ==
    (pc = "idle" /\ IsDocument(orig)) =>
        LET block == orig.blocks[1]
            new_entity_id == get_next_entity_id(block)
        IN  /\ \A i \in 1..Len(EntityRowsOf(block)) :
                   LET raw == EntityRowsOf(block)[i].id
                   IN  /\ raw # new_entity_id
                       /\ as_string(raw) # new_entity_id
                       /\ int(as_string(raw)).ok =>
                              int(as_string(raw)).value < int(new_entity_id).value
            /\ int(new_entity_id).ok
            /\ Synthesized => result.water_entity_id = new_entity_id
\* The water entity was synthesized as 3 for a block whose _entity lists
\* the ids 1 and 02, neither of them water.
C29_Witness ==
    /\ Synthesized
    /\ Len(EntityRowsOf(orig.blocks[1])) = 2
    /\ {EntityRowsOf(orig.blocks[1])[i].id : i \in 1..2} = {<<49>>, <<48, 50>>}
    /\ result.water_entity_id = <<51>>

\* The file the last find_orphan_chains call of the script was given.
OrphansFile == fs[orphans.cif_path]

\* C30: on the same file the script's find_orphan_chains and
\* find_missing_struct_asym both return nothing or both return a result of
\* the same pdb_id, file path, sorted id list, component codes and atom
\* counts; and on the same document detect_missing_asym_in_block, which the
\* repair acts on, returns the ids the script reports.
C30_DetectorsAgree ==
    /\ (orphans.called /\ found.called /\ orphans.cif_path = found.cif_path) =>
          /\ orphans.value.is_none <=> found.value.is_none
          /\ orphans.value.pdb_id = found.value.pdb_id
          /\ orphans.value.file_path = found.value.file_path
          /\ orphans.value.orphan_chains = found.value.missing_asym_ids
          /\ orphans.value.details = found.value.details
    /\ (orphans.called /\ Detected /\ orig = OrphansFile) =>
          orphans.value.orphan_chains = missing_ids
    /\ (found.called /\ Detected /\ orig = FoundFile) =>
          found.value.missing_asym_ids = missing_ids
\* The three detectors have run on a file that declares 'B' in quotes and
\* has atom rows on the chains A and B: each reports A alone.
C30_Witness ==
    /\ orphans.called /\ found.called /\ Detected
    /\ orphans.cif_path = found.cif_path
    /\ orig = OrphansFile
    /\ ~orphans.value.is_none
    /\ DeclaredIds(orig.blocks[1]) = {<<66>>}
    /\ AtomIds(orig.blocks[1]) = {<<65>>, <<66>>}
    /\ orphans.value.orphan_chains = << <<65>> >>
    /\ missing_ids = << <<65>> >>

=============================================================================
